---- MODULE Spec2Model ----
(***************************************************************************)
(* mcp-server-openai: the tool-call handler of server.py and the two       *)
(* backend operations of llm.py.                                           *)
(*                                                                         *)
(* A handler invocation is an asyncio task.  It runs without interruption  *)
(* up to its only suspension point, the await of the remote chat           *)
(* completion (the image file is read with a blocking open), and again     *)
(* from the resumption of that await to its return.  Each of those two     *)
(* runs is one action.                                                     *)
(*                                                                         *)
(* Python values are records [t, s, n]: t is the type, s the text of a     *)
(* str, n the number of an int, or of a float in tenths (0.7 is 7).        *)
(* Strings are TLA+ strings, so formatting is real concatenation.          *)
(***************************************************************************)
EXTENDS Integers, Sequences, FiniteSets, TLC

VARIABLES
    task,   \* task id -> the frame of that handler invocation
    log     \* the process-wide logger: the last line it emitted ("" = none)

vars == <<task, log>>

\* The handler invocations the host may have in flight at once.
Tasks == {"t1", "t2"}

\* The remote model answers with one of the texts "1" .. MaxReply, or None.
MaxReply == 4

---------------------------------------------------------------------------
(* Python values *)

PyString(s) == [t |-> "str", s |-> s, n |-> 0]
PyInt(n) == [t |-> "int", s |-> "", n |-> n]
PyFloat(tenths) == [t |-> "float", s |-> "", n |-> tenths]
PyNone == [t |-> "none", s |-> "", n |-> 0]
\* Not a Python value: the key is not in the mapping / nothing was passed.
Absent == [t |-> "absent", s |-> "", n |-> 0]

\* repr() of a str, as KeyError and OSError messages show a key or a path.
PyRepr(s) == "'" \o s \o "'"

\* str() of a value, as an f-string formats it.
PyStr(v) ==
    CASE v.t = "str" -> v.s
      [] v.t = "int" -> ToString(v.n)
      [] v.t = "float" -> ToString(v.n \div 10) \o "." \o ToString(v.n % 10)
      [] OTHER -> "None"

StartsWith(s, p) == Len(s) >= Len(p) /\ SubSeq(s, 1, Len(p)) = p

Contains(s, p) ==
    \E i \in 1..(Len(s) - Len(p) + 1) : SubSeq(s, i, i + Len(p) - 1) = p

---------------------------------------------------------------------------
(* Exceptions: the class and str(e) *)

NoExc == [cls |-> "", msg |-> ""]
Exc(cls, msg) == [cls |-> cls, msg |-> msg]

KeyError(k) == Exc("KeyError", PyRepr(k))
ValueError(m) == Exc("ValueError", m)

\* open(image_path, "rb") on a path that cannot be read.
ReadOutcomes == {"ok", "FileNotFoundError", "PermissionError"}

OSError(kind, path) ==
    IF kind = "FileNotFoundError"
    THEN Exc(kind, "[Errno 2] No such file or directory: " \o PyRepr(path))
    ELSE Exc(kind, "[Errno 13] Permission denied: " \o PyRepr(path))

\* What the awaited chat completion can fail with: the client's errors, and
\* the IndexError of response.choices[0] on a response without choices.
BackendErrors ==
    { Exc("APIConnectionError", "Connection error."),
      Exc("AuthenticationError", "Incorrect API key provided"),
      Exc("IndexError", "list index out of range") }

\* response.choices[0].message.content: a str, or None.
Replies == {PyString(ToString(i)) : i \in 1..MaxReply} \cup {PyNone}

---------------------------------------------------------------------------
(* handle_list_tools: the declared schemas *)

Keys == {"query", "image_path", "model", "temperature", "max_tokens"}

ask_openai_tool ==
    [ name |-> "ask-openai",
      required |-> <<"query">>,
      properties |-> {"query", "model", "temperature", "max_tokens"},
      model_default |-> PyString("gpt-4"),
      model_enum |-> {"gpt-4", "gpt-3.5-turbo"},
      temperature_default |-> PyFloat(7),
      temperature_minimum |-> PyInt(0),
      temperature_maximum |-> PyInt(2),
      max_tokens_default |-> PyInt(500),
      max_tokens_minimum |-> PyInt(1),
      max_tokens_maximum |-> PyInt(4000) ]

ask_openai_vision_tool ==
    [ name |-> "ask-openai-vision",
      required |-> <<"query", "image_path">>,
      properties |-> Keys,
      model_default |-> PyString("gpt-4o"),
      model_enum |-> {"gpt-4o", "gpt-4o-mini"},
      temperature_default |-> PyFloat(7),
      temperature_minimum |-> PyInt(0),
      temperature_maximum |-> PyInt(2),
      max_tokens_default |-> PyInt(500),
      max_tokens_minimum |-> PyInt(1),
      max_tokens_maximum |-> PyInt(4000) ]

handle_list_tools == <<ask_openai_tool, ask_openai_vision_tool>>

ToolNames == {handle_list_tools[i].name : i \in 1..Len(handle_list_tools)}

\* The declared tool of that name.
Tool(name) ==
    CHOOSE d \in {handle_list_tools[i] : i \in 1..Len(handle_list_tools)} :
        d.name = name

CatalogDefault(name, k) ==
    CASE k = "model" -> Tool(name).model_default
      [] k = "temperature" -> Tool(name).temperature_default
      [] k = "max_tokens" -> Tool(name).max_tokens_default
      [] OTHER -> Absent

\* A number in tenths, for an int or a float.
Tenths(v) == IF v.t = "int" THEN v.n * 10 ELSE v.n

\* Whether value v satisfies what the schema of tool `name` declares for k
\* (JSON Schema: "number" admits an integer, "integer" only an int).
Conforms(name, k, v) ==
    CASE k \in {"query", "image_path"} -> v.t = "str"
      [] k = "model" -> v.t = "str" /\ v.s \in Tool(name).model_enum
      [] k = "temperature" ->
            /\ v.t \in {"int", "float"}
            /\ Tenths(Tool(name).temperature_minimum) <= Tenths(v)
            /\ Tenths(v) <= Tenths(Tool(name).temperature_maximum)
      [] k = "max_tokens" ->
            /\ v.t = "int"
            /\ Tool(name).max_tokens_minimum.n <= v.n
            /\ v.n <= Tool(name).max_tokens_maximum.n
      [] OTHER -> TRUE

---------------------------------------------------------------------------
(* The argument mapping: None, or a dict.  map[k] = Absent: k is no key. *)

NoneArguments == [none |-> TRUE, map |-> [k \in Keys |-> Absent]]
Dict(m) == [none |-> FALSE, map |-> m]

\* `k in arguments`
Has(arguments, k) == arguments.map[k].t # "absent"

\* Variant: tests `arguments is None` instead of `not arguments`.
FalsyNoneOnly(arguments) == arguments.none

\* `not arguments`: None, or a dict without keys.
Falsy(arguments) == arguments.none \/ \A k \in Keys : ~Has(arguments, k)

\* Variant: a supplied value of another type than the default is replaced
\* by the default.
GetValidated(arguments, k, default) ==
    IF Has(arguments, k) /\ arguments.map[k].t = default.t
    THEN arguments.map[k] ELSE default

\* arguments.get(k, default)
Get(arguments, k, default) ==
    IF Has(arguments, k) THEN arguments.map[k] ELSE default

\* Variant: only `query` is subscripted, image_path is read with .get().
SubscriptedQueryOnly(name) == <<"query">>

\* The keys a branch of the handler subscripts (arguments[k]), in the order
\* Python evaluates the call's keyword arguments.
Subscripted(name) ==
    IF name = "ask-openai" THEN <<"query">> ELSE <<"query", "image_path">>

\* The first subscripted key that is missing ("" when none is): the
\* subscript that raises KeyError.
FirstMissing(name, arguments) ==
    LET ks == Subscripted(name)
        miss == {i \in 1..Len(ks) : ~Has(arguments, ks[i])}
    IN  IF miss = {} THEN ""
        ELSE ks[CHOOSE i \in miss : \A j \in miss : i <= j]

\* Variant: the handler's max_tokens default differs from the schema's.
DispatchDefaultTokens(name, k) ==
    CASE k = "model" ->
            IF name = "ask-openai" THEN PyString("gpt-4") ELSE PyString("gpt-4o")
      [] k = "temperature" -> PyFloat(7)
      [] k = "max_tokens" -> PyInt(1000)
      [] OTHER -> Absent

\* Variant: the vision branch keeps the text branch's model default.
DispatchDefaultModel(name, k) ==
    CASE k = "model" -> PyString("gpt-4")
      [] k = "temperature" -> PyFloat(7)
      [] k = "max_tokens" -> PyInt(500)
      [] OTHER -> Absent

\* The default each .get() of the handler names.
DispatchDefault(name, k) ==
    CASE k = "model" ->
            IF name = "ask-openai" THEN PyString("gpt-4") ELSE PyString("gpt-4o")
      [] k = "temperature" -> PyFloat(7)
      [] k = "max_tokens" -> PyInt(500)
      [] OTHER -> Absent

---------------------------------------------------------------------------
(* The remote call: client.chat.completions.create(...) *)

NoReq ==
    [ op |-> "", query |-> Absent, image_path |-> Absent, model |-> Absent,
      temperature |-> Absent, max_tokens |-> Absent ]

\* The keyword arguments the handler passes to the connector.
Resolve(name, arguments) ==
    [ op |-> IF name = "ask-openai" THEN "ask_openai" ELSE "ask_openai_vision",
      query |-> arguments.map["query"],
      image_path |->
          IF name = "ask-openai" THEN Absent ELSE arguments.map["image_path"],
      model |-> Get(arguments, "model", DispatchDefault(name, "model")),
      temperature |->
          Get(arguments, "temperature", DispatchDefault(name, "temperature")),
      max_tokens |->
          Get(arguments, "max_tokens", DispatchDefault(name, "max_tokens")) ]

\* What a run of the handler up to its await leaves: the exception raised
\* (NoExc: suspended in the await), the request issued, what happened.
Step(exc, req, events) == [exc |-> exc, req |-> req, events |-> events]

\* LLMConnector.ask_openai up to the await: the request goes out.
ask_openai(kw) == Step(NoExc, kw, <<"remote">>)

\* Variant: the request goes out before the image is read.
ask_openai_vision_remote_first(kw, ro) ==
    IF ro = "ok"
    THEN Step(NoExc, kw, <<"remote", "read_ok">>)
    ELSE Step(OSError(ro, PyStr(kw.image_path)), kw, <<"remote", "read_failed">>)

\* LLMConnector.ask_openai_vision up to the await: the image is read and
\* encoded, then the request goes out; a failed read raises from open().
ask_openai_vision(kw, ro) ==
    IF ro = "ok"
    THEN Step(NoExc, kw, <<"read_ok", "remote">>)
    ELSE Step(OSError(ro, PyStr(kw.image_path)), NoReq, <<"read_failed">>)

\* Variant: the tool name is looked up before the arguments are tested.
BeginLookupFirst(name, arguments, ro) ==
    IF name \notin {"ask-openai", "ask-openai-vision"}
    THEN Step(ValueError("Unknown tool: " \o name), NoReq, <<>>)
    ELSE IF Falsy(arguments)
    THEN Step(ValueError("No arguments provided"), NoReq, <<>>)
    ELSE IF FirstMissing(name, arguments) # ""
    THEN Step(KeyError(FirstMissing(name, arguments)), NoReq, <<>>)
    ELSE IF name = "ask-openai"
    THEN ask_openai(Resolve(name, arguments))
    ELSE ask_openai_vision(Resolve(name, arguments), ro)

\* handle_tool_call up to its await, or to the exception that ends it.
Begin(name, arguments, ro) ==
    IF Falsy(arguments)
    THEN Step(ValueError("No arguments provided"), NoReq, <<>>)
    ELSE IF name = "ask-openai"
    THEN IF FirstMissing(name, arguments) # ""
         THEN Step(KeyError(FirstMissing(name, arguments)), NoReq, <<>>)
         ELSE ask_openai(Resolve(name, arguments))
    ELSE IF name = "ask-openai-vision"
    THEN IF FirstMissing(name, arguments) # ""
         THEN Step(KeyError(FirstMissing(name, arguments)), NoReq, <<>>)
         ELSE ask_openai_vision(Resolve(name, arguments), ro)
    ELSE Step(ValueError("Unknown tool: " \o name), NoReq, <<>>)

---------------------------------------------------------------------------
(* The handler's results *)

TextContent(text) == [type |-> "text", text |-> text]

\* Variant: `except (ValueError, KeyError)`.
IsExceptionBuiltinOnly(exc) == exc.cls \in {"ValueError", "KeyError"}

\* `except Exception`: every class an exception here has derives from it.
IsException(exc) ==
    exc.cls \in { "ValueError", "KeyError", "IndexError", "FileNotFoundError",
                  "PermissionError", "APIConnectionError", "AuthenticationError" }

\* Variant: the text reports the failure the logger saw last.
ErrorTextLastLogged(exc) ==
    IF log = "" THEN "Error: " \o exc.msg
    ELSE "Error: " \o SubSeq(log, Len("Tool call failed: ") + 1, Len(log))

\* f"Error: {str(e)}"
ErrorText(exc) == "Error: " \o exc.msg

\* Variant: both branches use the text branch's label.
LabelText(name) == "OpenAI Response:\n"

\* The label of the branch that awaited the response.
Label(name) ==
    IF name = "ask-openai" THEN "OpenAI Response:\n"
    ELSE "OpenAI Vision Response:\n"

\* f"<label>{response}"
OkText(name, response) == Label(name) \o PyStr(response)

\* The connector's own except clause logs, then re-raises.
ConnectorLine(op, exc) ==
    IF op = "ask_openai" THEN "Failed to query OpenAI: " \o exc.msg
    ELSE "Failed to query OpenAI Vision: " \o exc.msg

HandlerLine(exc) == "Tool call failed: " \o exc.msg

\* logger.error(line), on a logger of which the last line is kept.
Emit(lg, line) == line

---------------------------------------------------------------------------
(* Frames *)

Idle ==
    [ pc |-> "idle", name |-> "", arguments |-> NoneArguments, req |-> NoReq,
      events |-> <<>>, exc |-> NoExc, response |-> Absent, result |-> <<>> ]

\* The handler's except clause: a caught exception becomes the one content
\* item returned; any other leaves the handler.
Catch(fr, exc) ==
    IF IsException(exc)
    THEN [fr EXCEPT !.pc = "done", !.exc = exc,
                    !.result = <<TextContent(ErrorText(exc))>>]
    ELSE [fr EXCEPT !.pc = "raised", !.exc = exc]

\* The log after an exception raised in the connector (inConnector) or in
\* the handler itself went through the except clauses on its way.
Logged(lg, op, exc, inConnector) ==
    LET l1 == IF inConnector THEN Emit(lg, ConnectorLine(op, exc)) ELSE lg
    IN  IF IsException(exc) THEN Emit(l1, HandlerLine(exc)) ELSE l1

---------------------------------------------------------------------------
(* What the host may send, and what the environment may answer *)

Names == {"ask-openai", "ask-openai-vision", "bogus"}

QueryValues == {Absent, PyString("2+2?"), PyInt(22)}
ImageValues == {Absent, PyString("/img.jpg"), PyString("/missing.jpg")}
ModelValues ==
    {Absent, PyString("gpt-3.5-turbo"), PyString("gpt-4o-mini"), PyNone}
TemperatureValues == {Absent, PyFloat(12), PyFloat(25), PyString("hot")}
MaxTokensValues == {Absent, PyInt(100), PyInt(0), PyString("many")}

ArgumentsSet ==
    {NoneArguments} \cup
    { Dict(m) : m \in [ query : QueryValues, image_path : ImageValues,
                        model : ModelValues, temperature : TemperatureValues,
                        max_tokens : MaxTokensValues ] }

\* The invocations of the concurrent specification.
ConcArgumentsSet ==
    {NoneArguments} \cup
    { Dict(m) : m \in [ query : {Absent, PyString("2+2?")},
                        image_path : {Absent, PyString("/img.jpg")},
                        model : {Absent}, temperature : {Absent},
                        max_tokens : {Absent, PyInt(0)} ] }

---------------------------------------------------------------------------
(* Actions *)

Init ==
    /\ task = [t \in Tasks |-> Idle]
    /\ log = ""

\* The host calls the tool: the handler runs to its await, or to its end.
Call(t, name, arguments, ro) ==
    /\ task[t].pc = "idle"
    /\ LET b == Begin(name, arguments, ro)
           fr == [Idle EXCEPT !.name = name, !.arguments = arguments,
                              !.req = b.req, !.events = b.events]
       IN  IF b.exc = NoExc
           THEN /\ task' = [task EXCEPT ![t] = [fr EXCEPT !.pc = "awaiting"]]
                /\ UNCHANGED log
           ELSE /\ task' = [task EXCEPT ![t] = Catch(fr, b.exc)]
                /\ log' = Logged(log, "ask_openai_vision", b.exc,
                                 b.events # <<>>)

\* The await resumes with a response: the handler returns its content.
Reply(t, response) ==
    /\ task[t].pc = "awaiting"
    /\ task' = [task EXCEPT ![t] =
                   [@ EXCEPT !.pc = "done", !.response = response,
                             !.events = Append(@, "replied"),
                             !.result =
                                 <<TextContent(OkText(task[t].name, response))>>]]
    /\ UNCHANGED log

\* The await, or the reading of the response, raises.
BackendFail(t, exc) ==
    /\ task[t].pc = "awaiting"
    /\ task' = [task EXCEPT ![t] =
                   Catch([@ EXCEPT !.events = Append(@, "failed")], exc)]
    /\ log' = Logged(log, task[t].req.op, exc, TRUE)

\* The host has the response: the frame is gone.
Return(t) ==
    /\ task[t].pc = "done"
    /\ task' = [task EXCEPT ![t] = Idle]
    /\ UNCHANGED log

\* The host delivers one invocation at a time.
Next ==
    \/ \E name \in Names, arguments \in ArgumentsSet, ro \in ReadOutcomes :
          Call("t1", name, arguments, ro)
    \/ \E response \in Replies : Reply("t1", response)
    \/ \E exc \in BackendErrors : BackendFail("t1", exc)
    \/ Return("t1")

Spec == Init /\ [][Next]_vars

\* The host issues invocations concurrently.
NextConc ==
    \/ \E t \in Tasks, name \in Names, arguments \in ConcArgumentsSet,
          ro \in ReadOutcomes : Call(t, name, arguments, ro)
    \/ \E t \in Tasks, response \in Replies : Reply(t, response)
    \/ \E t \in Tasks, exc \in BackendErrors : BackendFail(t, exc)
    \/ \E t \in Tasks : Return(t)

SpecConc == Init /\ [][NextConc]_vars

---------------------------------------------------------------------------
(* Vocabulary of the properties *)

Frames == {task[t] : t \in Tasks}
Started == {fr \in Frames : fr.pc # "idle"}
Finished == {fr \in Frames : fr.pc = "done"}

Known(name) == name \in ToolNames

\* The keys an argument mapping holds; a mapping that is None or holds none.
Supplied(arguments) == {k \in Keys : arguments.map[k] # Absent}
EmptyOrAbsent(arguments) == arguments.none \/ Supplied(arguments) = {}
Text(fr) == fr.result[1].text
Last(seq) == seq[Len(seq)]
Occurs(e, events) == \E i \in 1..Len(events) : events[i] = e

\* The keys the schema of a declared tool requires, and the optional ones.
Required(name) == {Tool(name).required[i] : i \in 1..Len(Tool(name).required)}
Optional(name) == Tool(name).properties \ Required(name)
MissingRequired(fr) ==
    {k \in Required(fr.name) : k \notin Supplied(fr.arguments)}

\* A frame of a declared tool whose arguments hold every required key.
Complete(fr) ==
    Known(fr.name) /\ ~EmptyOrAbsent(fr.arguments) /\ MissingRequired(fr) = {}

\* C1: the handler never raises outward; whatever the tool name, the
\* arguments and the outcome of the read and of the backend call, it returns
\* exactly one text content item, and after a failure inside the call the
\* item's text is "Error: " followed by the failure's message.
C1_NeverRaises ==
    \A t \in Tasks :
        /\ task[t].pc # "raised"
        /\ task[t].pc = "done" =>
              /\ Len(task[t].result) = 1
              /\ task[t].result[1].type = "text"
              /\ task[t].exc # NoExc =>
                    Text(task[t]) = "Error: " \o task[t].exc.msg
              /\ task[t].exc = NoExc => Last(task[t].events) = "replied"

C1_Witness ==
    /\ task["t1"].pc = "done"
    /\ task["t1"].name = "ask-openai-vision"
    /\ task["t1"].exc.cls = "PermissionError"
    /\ task["t1"].result =
          <<TextContent("Error: [Errno 13] Permission denied: '/img.jpg'")>>

\* C2 as stated: for every undeclared tool name and every argument mapping,
\* empty and absent ones included, the text is "Error: Unknown tool: <name>".
C2_UnknownToolAlways ==
    \A fr \in Finished :
        ~Known(fr.name) => Text(fr) = "Error: Unknown tool: " \o fr.name

\* C2 amended: for every undeclared tool name, a non-empty argument mapping
\* yields "Error: Unknown tool: <name>", and an empty or absent one yields
\* "Error: No arguments provided" (the arguments are checked first).
C2_UnknownToolNonEmpty ==
    \A fr \in Finished :
        ~Known(fr.name) =>
            /\ Len(fr.result) = 1
            /\ Text(fr) = IF EmptyOrAbsent(fr.arguments)
                          THEN "Error: No arguments provided"
                          ELSE "Error: Unknown tool: " \o fr.name
            /\ fr.req = NoReq /\ fr.events = <<>>

C2_Witness ==
    /\ task["t1"].pc = "done"
    /\ task["t1"].name = "bogus"
    /\ "query" \in Supplied(task["t1"].arguments)
    /\ Text(task["t1"]) = "Error: Unknown tool: bogus"

\* C3: a declared tool called with a non-empty mapping that lacks a required
\* key returns an error text naming a missing key, and the backend operation
\* is never invoked for that call.
C3_MissingRequiredKey ==
    \A fr \in Started :
        (Known(fr.name) /\ ~EmptyOrAbsent(fr.arguments) /\ MissingRequired(fr) # {}) =>
            /\ fr.pc = "done"
            /\ Len(fr.result) = 1
            /\ \E k \in MissingRequired(fr) :
                  /\ Text(fr) = "Error: " \o PyRepr(k)
                  /\ Contains(Text(fr), k)
            /\ fr.req = NoReq /\ fr.events = <<>>

C3_Witness ==
    /\ task["t1"].pc = "done"
    /\ task["t1"].name = "ask-openai-vision"
    /\ "query" \in Supplied(task["t1"].arguments)
    /\ "image_path" \notin Supplied(task["t1"].arguments)
    /\ Text(task["t1"]) = "Error: 'image_path'"

\* C4: a declared tool with every required argument, whose backend operation
\* succeeds with text T, was routed to its own operation only and returns
\* "OpenAI Response:\n" + T (text tool) or "OpenAI Vision Response:\n" + T
\* (vision tool); such a text never begins with "Error:".
C4_OkEnvelope ==
    \A fr \in Finished :
        (Complete(fr) /\ Last(fr.events) = "replied" /\ fr.response.t = "str") =>
            /\ fr.exc = NoExc
            /\ Len(fr.result) = 1
            /\ fr.name = "ask-openai" =>
                  /\ fr.req.op = "ask_openai"
                  /\ fr.events = <<"remote", "replied">>
                  /\ Text(fr) = "OpenAI Response:\n" \o fr.response.s
            /\ fr.name = "ask-openai-vision" =>
                  /\ fr.req.op = "ask_openai_vision"
                  /\ fr.events = <<"read_ok", "remote", "replied">>
                  /\ Text(fr) = "OpenAI Vision Response:\n" \o fr.response.s
            /\ ~StartsWith(Text(fr), "Error:")

C4_Witness ==
    /\ task["t1"].pc = "done"
    /\ task["t1"].name = "ask-openai"
    /\ task["t1"].arguments.map["query"] = PyString("2+2?")
    /\ \A k \in Keys \ {"query"} : k \notin Supplied(task["t1"].arguments)
    /\ task["t1"].response = PyString("4")
    /\ Text(task["t1"]) = "OpenAI Response:\n4"

\* C5: whenever the backend operation is called, each optional argument
\* missing from the invocation has the default the catalog declares for it
\* and each one supplied has the caller's value; the text tool called with
\* only `query` gets model "gpt-4", temperature 0.7, max_tokens 500.
C5_DefaultSubstitution ==
    \A fr \in Started :
        fr.req.op # "" =>
            /\ \A k \in Optional(fr.name) :
                  fr.req[k] = IF k \in Supplied(fr.arguments)
                              THEN fr.arguments.map[k]
                              ELSE CatalogDefault(fr.name, k)
            /\ (fr.name = "ask-openai" /\
                \A k \in Keys \ {"query"} : k \notin Supplied(fr.arguments)) =>
                  /\ fr.req.model = PyString("gpt-4")
                  /\ fr.req.temperature = PyFloat(7)
                  /\ fr.req.max_tokens = PyInt(500)

C5_Witness ==
    /\ task["t1"].pc = "awaiting"
    /\ task["t1"].name = "ask-openai-vision"
    /\ "model" \notin Supplied(task["t1"].arguments)
    /\ "max_tokens" \notin Supplied(task["t1"].arguments)
    /\ task["t1"].arguments.map["temperature"] = PyFloat(12)
    /\ task["t1"].req.model = PyString("gpt-4o")
    /\ task["t1"].req.temperature = PyFloat(12)
    /\ task["t1"].req.max_tokens = PyInt(500)

\* C6 as stated: whenever a backend call is attempted, every resolved
\* argument satisfies the constraints its tool's schema declares.
C6_ResolvedConform ==
    \A fr \in Started :
        fr.req.op # "" =>
            \A k \in Tool(fr.name).properties : Conforms(fr.name, k, fr.req[k])

\* C6 amended: whenever a backend call is attempted, every resolved argument
\* that the caller did not supply (a substituted default) satisfies the
\* constraints its tool's schema declares; a supplied value is not checked.
C6_DefaultsConform ==
    \A fr \in Started :
        fr.req.op # "" =>
            \A k \in Tool(fr.name).properties :
                k \notin Supplied(fr.arguments) =>
                    Conforms(fr.name, k, fr.req[k])

C6_Witness ==
    /\ task["t1"].pc = "awaiting"
    /\ task["t1"].name = "ask-openai-vision"
    /\ "model" \notin Supplied(task["t1"].arguments)
    /\ task["t1"].req.model.s \in ask_openai_vision_tool.model_enum
    /\ task["t1"].arguments.map["temperature"] = PyFloat(25)
    /\ task["t1"].req.temperature = PyFloat(25)

\* What the environment did to a call: the events of its read and backend
\* call, the response, and the exception of a failed read or backend call.
Outcome(fr) ==
    [ events |-> fr.events, response |-> fr.response,
      cause |-> IF fr.events = <<>> THEN NoExc ELSE fr.exc ]

\* C7: no hidden state: two finished calls, concurrent or one after the
\* other, with the same tool name, the same arguments and the same outcome
\* of their own read and backend call return the same content; so a call
\* repeated against a backend failing the same way returns the same text.
C7_NoHiddenState ==
    \A t1 \in Tasks, t2 \in Tasks :
        ( /\ task[t1].pc = "done" /\ task[t2].pc = "done"
          /\ task[t1].name = task[t2].name
          /\ task[t1].arguments = task[t2].arguments
          /\ Outcome(task[t1]) = Outcome(task[t2]) )
        => task[t1].result = task[t2].result

C7_Witness ==
    /\ task["t1"].pc = "done" /\ task["t2"].pc = "done"
    /\ task["t1"].name = "ask-openai" /\ task["t2"].name = "ask-openai"
    /\ task["t1"].arguments = task["t2"].arguments
    /\ task["t1"].exc = Exc("APIConnectionError", "Connection error.")
    /\ task["t2"].exc = task["t1"].exc
    /\ Text(task["t1"]) = "Error: Connection error."
    /\ Text(task["t2"]) = "Error: Connection error."
    /\ log = "Tool call failed: Connection error."

\* C8: a declared tool called with an empty or absent argument mapping
\* returns "Error: No arguments provided", and neither the image read nor a
\* backend operation is performed.
C8_NoArguments ==
    \A fr \in Started :
        (Known(fr.name) /\ EmptyOrAbsent(fr.arguments)) =>
            /\ fr.pc = "done"
            /\ fr.result = <<TextContent("Error: No arguments provided")>>
            /\ fr.events = <<>>
            /\ fr.req = NoReq

C8_Witness ==
    /\ task["t1"].pc = "done"
    /\ task["t1"].name = "ask-openai-vision"
    /\ ~task["t1"].arguments.none
    /\ Text(task["t1"]) = "Error: No arguments provided"

\* C9: permissive pass-through: with every required key present, the call is
\* never rejected before the backend operation, each argument present in the
\* invocation reaches the backend call unchanged whatever its type or range,
\* and an error text arises only from the backend operation itself failing.
C9_PassThrough ==
    \A fr \in Started :
        Complete(fr) =>
            /\ fr.events # <<>>
            /\ ~Occurs("read_failed", fr.events) =>
                  /\ fr.req.op # ""
                  /\ Occurs("remote", fr.events)
                  /\ \A k \in Tool(fr.name).properties :
                        k \in Supplied(fr.arguments) =>
                            fr.req[k] = fr.arguments.map[k]
            /\ (fr.pc = "done" /\ fr.exc # NoExc) =>
                  Last(fr.events) \in {"failed", "read_failed"}

C9_Witness ==
    /\ task["t1"].pc = "done"
    /\ task["t1"].name = "ask-openai"
    /\ task["t1"].arguments.map["query"] = PyInt(22)
    /\ task["t1"].arguments.map["temperature"] = PyFloat(25)
    /\ task["t1"].arguments.map["max_tokens"] = PyString("many")
    /\ task["t1"].arguments.map["model"] = PyString("gpt-4o-mini")
    /\ task["t1"].req.query = PyInt(22)
    /\ task["t1"].req.temperature = PyFloat(25)
    /\ task["t1"].req.max_tokens = PyString("many")
    /\ task["t1"].req.model = PyString("gpt-4o-mini")
    /\ Last(task["t1"].events) = "replied"

\* C10: on the vision path the remote call is preceded by a successful read
\* of the image; when the read fails no remote call is issued for that call
\* and the text is "Error: " followed by the read failure's message.
C10_ReadBeforeRemote ==
    \A fr \in Started :
        fr.name = "ask-openai-vision" =>
            /\ \A i \in 1..Len(fr.events) :
                  fr.events[i] = "remote" =>
                      \E j \in 1..(i - 1) : fr.events[j] = "read_ok"
            /\ Occurs("read_failed", fr.events) =>
                  /\ fr.pc = "done"
                  /\ ~Occurs("remote", fr.events)
                  /\ fr.req = NoReq
                  /\ fr.exc.cls \in {"FileNotFoundError", "PermissionError"}
                  /\ fr.result = <<TextContent("Error: " \o fr.exc.msg)>>
                  /\ Contains(Text(fr), PyRepr(fr.arguments.map["image_path"].s))

C10_Witness ==
    /\ task["t1"].pc = "done"
    /\ task["t1"].name = "ask-openai-vision"
    /\ task["t1"].arguments.map["image_path"] = PyString("/missing.jpg")
    /\ task["t1"].events = <<"read_failed">>
    /\ Text(task["t1"]) =
          "Error: [Errno 2] No such file or directory: '/missing.jpg'"

====
